---- MODULE Spec2Model ----
(***************************************************************************)
(* Model of shuffgauss/bounds.py: the RDP accountants for the shuffle      *)
(* Gaussian mechanism (ShuffGaussRDPtoDP and its subclasses) and the       *)
(* parallel implementation _SubShuffGaussRDPtoDP.                          *)
(*                                                                         *)
(* Arithmetic.  The code works on IEEE doubles in the natural-log domain.  *)
(* The model works on integers in the base-2 log domain with floor         *)
(* rounding: log(x) is floor(log2 x), exp(x) is 2^x, a division is a floor *)
(* division, log(0) is NegInf.  A curve entry that the code would compute  *)
(* as a float below one unit therefore rounds to 0, which is how the       *)
(* floating-point underflow of log(1 + tiny) to 0.0 shows up here.         *)
(* Rationals are pairs <<numerator, denominator>>: gamma, error, and       *)
(* sigma0, which is held as its square (the code reads it only through     *)
(* 2 * sigma0**2).  A float delta is 2^(-e) with a sign.                   *)
(*                                                                         *)
(* numpy arrays are objects: the model keeps them in a heap and the        *)
(* accountant's fields hold addresses, so that two fields naming the same  *)
(* array is a state the model can be in.  An array of length m is a        *)
(* sequence; index i of the model is index i-1 of the code, i.e. the       *)
(* entry of order i.                                                       *)
(***************************************************************************)
EXTENDS Integers, Sequences, FiniteSets, TLC

\* ---------------------------------------------------------------- bounds
MaxM == 3
MaxShuffn == 2
MaxLogRatio == 2
MaxCoeff == 2
MaxDeltaExp == 2

\* sigma0, as the pair <<p, q>> with sigma0**2 = p/q
Sigma0s == {<<1, 2>>, <<1, 1>>}

\* ------------------------------------------------------------ arithmetic
\* float('-inf'): the value of np.log(0); absorbing under addition.
NegInf == -1000000
\* float('inf'): the value of a conversion that divides by (order - 1) = 0.
PosInf == 1000000

Plus(a, b) ==
    IF a = NegInf \/ b = NegInf THEN NegInf
    ELSE IF a = PosInf \/ b = PosInf THEN PosInf
    ELSE a + b

Times(k, a) ==
    IF a = NegInf \/ a = PosInf THEN a ELSE k * a

RECURSIVE FloorLog2(_)
FloorLog2(x) == IF x < 2 THEN 0 ELSE 1 + FloorLog2(x \div 2)

RECURSIVE CeilLog2Ratio(_, _)
\* least k >= 0 with p * 2^k >= q
CeilLog2Ratio(p, q) == IF p >= q THEN 0 ELSE 1 + CeilLog2Ratio(2 * p, q)

\* np.log of a non-negative integer
Log(x) == IF x <= 0 THEN NegInf ELSE FloorLog2(x)

\* np.log of a non-negative rational <<p, q>>
LogRat(r) ==
    IF r[1] = 0 THEN NegInf
    ELSE IF r[1] >= r[2] THEN FloorLog2(r[1] \div r[2])
    ELSE 0 - CeilLog2Ratio(r[1], r[2])

\* np.exp of a non-negative integer
Exp(x) == 2 ^ x

Min2(a, b) == IF a <= b THEN a ELSE b

RECURSIVE Fact(_)
Fact(k) == IF k <= 1 THEN 1 ELSE k * Fact(k - 1)

Binom(a, b) == IF b < 0 \/ b > a THEN 0 ELSE Fact(a) \div (Fact(b) * Fact(a - b))

RECURSIVE SeqSum(_)
SeqSum(s) == IF s = << >> THEN 0 ELSE Head(s) + SeqSum(Tail(s))

RECURSIVE SeqProd(_)
SeqProd(s) == IF s = << >> THEN 1 ELSE Head(s) * SeqProd(Tail(s))

SeqMin(s) == CHOOSE x \in {s[k] : k \in DOMAIN s} : \A k \in DOMAIN s : x <= s[k]

\* ------------------------------------------------- utilities (.utils)
\* stable_logsumexp(terms): log(sum(exp(t))), here floor(log2(sum 2^t)).
\* Terms equal to -inf contribute nothing.
stable_logsumexp(terms) ==
    LET fin == SelectSeq(terms, LAMBDA t : t # NegInf)
    IN  IF fin = << >> THEN NegInf
        ELSE LET lo == SeqMin(fin)
                 pw == [k \in DOMAIN fin |-> 2 ^ (fin[k] - lo)]
             IN  FloorLog2(SeqSum(pw)) + lo

RECURSIVE PartsFrom(_, _)
\* the partitions of k whose parts are all <= p, each a sequence of parts
PartsFrom(k, p) ==
    IF k = 0 THEN << << >> >>
    ELSE IF p = 0 THEN << >>
    ELSE (IF p <= k
          THEN LET rest == PartsFrom(k - p, p)
               IN  [j \in DOMAIN rest |-> <<p>> \o rest[j]]
          ELSE << >>) \o PartsFrom(k, p - 1)

\* accel_asc(lmbda): every integer partition of lmbda
accel_asc(lmbda) == PartsFrom(lmbda, lmbda)

\* eff_log_multinomial_coeff(parts, n): log of the number of ways the lmbda
\* copies fall into n slots with occupancy pattern parts:
\* lmbda!/prod(p_i!) * n!/((n-k)! * prod(mult_j!)), k the number of parts.
eff_log_multinomial_coeff(parts, n) ==
    LET k == Len(parts)
        lmbda == SeqSum(parts)
        vals == {parts[j] : j \in DOMAIN parts}
        mult(v) == Cardinality({j \in DOMAIN parts : parts[j] = v})
        facts == [j \in DOMAIN parts |-> Fact(parts[j])]
        RECURSIVE MultProd(_)
        MultProd(S) == IF S = {} THEN 1
                       ELSE LET v == CHOOSE x \in S : TRUE
                            IN  Fact(mult(v)) * MultProd(S \ {v})
    IN  IF k > n THEN NegInf
        ELSE Log((Fact(lmbda) \div SeqProd(facts))
                 * (Fact(n) \div (Fact(n - k) * MultProd(vals))))

\* get_binom_coeffs(lmbda)[lmbda, j]: log C(lmbda, j)
logBinomC(lmbda, j) == Log(Binom(lmbda, j))

\* fun_int(i, delta, coeff, rdps): the classical conversion at one order,
\* coeff * rdp(i) + log(1/delta) / (i - 1); infinite below order 2.
\* delta = 2^(-e) is given by e.
fun_int(i, e, coeff, rdps) ==
    IF i <= 1 THEN PosInf
    ELSE Plus(Times(coeff, rdps[i]), e \div (i - 1))

\* --------------------------------------------------- module functions
\* shuffle_gauss_rdp(lmbda, sigma0, n)
shuffle_gauss_rdp(lmbda, sigma0, n) ==
    LET partitions == accel_asc(lmbda)
        multinom == [k \in DOMAIN partitions |->
            LET parts == partitions[k]
                multicoeff == eff_log_multinomial_coeff(parts, n)
                square_of_part == SeqSum([j \in DOMAIN parts |-> parts[j] * parts[j]])
            IN  Plus(Plus(multicoeff,
                          ((square_of_part - lmbda) * sigma0[2]) \div (2 * sigma0[1])),
                     Times(0 - lmbda, Log(n)))]
    IN  stable_logsumexp(multinom) \div (lmbda - 1)

\* shuffle_gauss_rdp is a pure function: its value at every order, noise level
\* and shuffle size an accountant of the model passes to it, computed once
shuffle_gauss_rdp_values ==
    [lmbda \in 2..MaxM, sigma0 \in Sigma0s, n \in 1..MaxShuffn |->
        shuffle_gauss_rdp(lmbda, sigma0, n)]

\* _subshuff_gauss_rdp(lmbda, gamma, shuffRDPs)
subshuff_gauss_rdp_helper(lmbda, gamma, shuffRDPs) ==
    LET exp_eps2 == Exp(shuffRDPs[2])
        min_term2 == Min2(4 * exp_eps2 - 4, 2 * exp_eps2)
        term2 == Plus(Plus(Times(2, LogRat(gamma)), logBinomC(lmbda, 2)),
                      Log(min_term2))
        termj == [k \in 1..(lmbda - 2) |->
            LET j == k + 2
            IN  Plus(Plus(Times(j, LogRat(gamma)), logBinomC(lmbda, j)),
                     Times(j - 1, shuffRDPs[j]))]
        moments == <<0, term2>> \o termj
    IN  stable_logsumexp(moments) \div (lmbda - 1)

\* get_subshuff_gauss_rdp(lmbda, sigma0, gamma, subno)
get_subshuff_gauss_rdp(lmbda, sigma0, gamma, subno) ==
    LET shuffRDPs == [i \in 1..lmbda |->
            IF i > 1 THEN shuffle_gauss_rdp_values[i, sigma0, subno] ELSE 0]
    IN  subshuff_gauss_rdp_helper(lmbda, gamma, shuffRDPs)

\* _check_delta(delta): the exception it raises, "none" when it returns
check_delta(delta) ==
    IF delta.type # "float" THEN "TypeError: delta must be float"
    ELSE IF delta.neg \/ delta.e < 0
         THEN "ValueError: delta must be between 0 and 1"
    ELSE "none"

\* _check_lmbda(lmbda): the exception it raises, "none" when it returns.
\* type(lmbda) is compared with int itself, so a numpy integer is rejected.
check_lmbda(lmbda) ==
    IF lmbda.type # "int" THEN "TypeError: lmbda must be integer"
    ELSE IF lmbda.val <= 1 THEN "ValueError: lmbda must be larger than 1"
    ELSE "none"

\* --------------------------------------------------------------- state
VARIABLES
    self,   \* the accountant: parameters, and the addresses of its arrays
    heap,   \* address -> numpy array (a sequence of length m)
    written,\* address -> the orders whose entry has been assigned so far
    ret     \* the last call: its name, arguments and outcome

vars == <<self, heap, written, ret>>

Public == {"ShuffGaussRDPtoDP", "SubShuffGaussRDPtoDP", "SubGaussRDPtoDP",
           "ApproxSCIGaussRDPtoDP"}
Subsampled == {"SubShuffGaussRDPtoDP", "SubGaussRDPtoDP"}
Classes == Public \cup {"_SubShuffGaussRDPtoDP"}

Errors == {<<1, 2>>}
\* 2^0 .. 2^(-MaxDeltaExp), and three arguments _check_delta rejects:
\* 2.0, -0.5 and the integer 1
Deltas == [type : {"float"}, neg : {FALSE}, e : 0..MaxDeltaExp]
          \cup {[type |-> "float", neg |-> FALSE, e |-> -1],
                [type |-> "float", neg |-> TRUE, e |-> 1],
                [type |-> "int", neg |-> FALSE, e |-> 0]}
Coeffs == 1..MaxCoeff

\* np.zeros_like(self.maxlmbdas, float)
zeros_like(m) == [i \in 1..m |-> 0]

\* the gate with its test inverted (arr.any() == True)
AllZero_inverted(arr) == \E i \in DOMAIN arr : arr[i] # 0

\* arr.any() == False
AllZero(arr) == \A i \in DOMAIN arr : arr[i] = 0

Unset == [func |-> "unset", arg |-> 0]
NoRat == <<0, 1>>

NoArgs == [delta |-> [type |-> "none", neg |-> FALSE, e |-> 0], coeff |-> 0]
\* fresh: the call was the first one after construction
Outcome(op, args, exc, eps, order, warnings, fresh) ==
    [op |-> op, args |-> args, exc |-> exc, eps |-> eps, order |-> order,
     warnings |-> warnings, fresh |-> fresh]

\* ShuffGaussRDPtoDP.__init__ and the subclasses' __init__
PublicInit(cls, sigma0, n, shuffn, m, verbose, error) ==
    [cls |-> cls, sigma0 |-> sigma0, shuffn |-> shuffn, m |-> m,
     verbose |-> verbose,
     n |-> IF cls = "ShuffGaussRDPtoDP" THEN 0 ELSE n,
     gamma |-> IF cls = "ShuffGaussRDPtoDP" THEN NoRat ELSE <<shuffn, n>>,
     subno |-> 0,
     displaced_n |-> IF cls = "ApproxSCIGaussRDPtoDP"
                     THEN ((error[2] - error[1]) * shuffn) \div error[2] + 1
                     ELSE 0,
     chernoff_factor |-> IF cls = "ApproxSCIGaussRDPtoDP"
                         THEN (0 - shuffn * error[1] * error[1])
                                \div (2 * error[2] * error[2])
                         ELSE 0,
     RDPs_int |-> 1,
     single_subshuffRDPs_int |-> IF cls = "ApproxSCIGaussRDPtoDP" THEN 2 ELSE 0,
     subshuffRDPs_int |-> IF cls = "ApproxSCIGaussRDPtoDP" THEN 3 ELSE 0,
     shuffRDPs_int |-> 0,
     shuffrdpfunc |-> Unset, subshufffunc |-> Unset]

\* _SubShuffGaussRDPtoDP.__init__
PrivateInit(sigma0, n, subno, m, verbose) ==
    [cls |-> "_SubShuffGaussRDPtoDP", sigma0 |-> sigma0, shuffn |-> 0,
     m |-> m, verbose |-> verbose, n |-> n, gamma |-> <<subno, n>>,
     subno |-> subno, displaced_n |-> 0, chernoff_factor |-> 0,
     RDPs_int |-> 0, single_subshuffRDPs_int |-> 0,
     shuffRDPs_int |-> 1, subshuffRDPs_int |-> 2,
     shuffrdpfunc |-> Unset, subshufffunc |-> Unset]

NumArrays(cls) ==
    IF cls = "ApproxSCIGaussRDPtoDP" THEN 3
    ELSE IF cls = "_SubShuffGaussRDPtoDP" THEN 2 ELSE 1

Init ==
    \E cls \in Classes, sigma0 \in Sigma0s, shuffn \in 1..MaxShuffn,
       m \in 1..MaxM, verbose \in BOOLEAN, error \in Errors :
      \E n \in {shuffn * 2 ^ k : k \in 0..MaxLogRatio} :
        /\ cls = "ShuffGaussRDPtoDP" => n = shuffn
        /\ self = IF cls \in Public
                  THEN PublicInit(cls, sigma0, n, shuffn, m, verbose, error)
                  ELSE PrivateInit(sigma0, n, shuffn, m, verbose)
        /\ heap = [a \in 1..NumArrays(cls) |-> zeros_like(m)]
        /\ written = [a \in 1..NumArrays(cls) |-> {}]
        /\ ret = Outcome("__init__", NoArgs, "none", 0, 0, {}, FALSE)

\* the orders at which rdp_func may raise inside a fill loop; 0: it does not
FailPoints == {0} \cup (2..self.m)

\* ------------------------------------------------------------ methods
\* ShuffGaussRDPtoDP.get_rdps(rdps_int, rdp_func): the array after the
\* in-place loop.  When rdp_func raises at order failAt the orders below
\* failAt have already been written.  rdp_func maps each order above 1 to
\* the value the callable returns for it.
get_rdps(rdps_int, rdp_func, failAt) ==
    [i \in DOMAIN rdps_int |->
        IF i > 1 /\ (failAt = 0 \/ i < failAt) THEN rdp_func[i] ELSE rdps_int[i]]

\* the orders get_rdps assigns before it returns or rdp_func raises
get_rdps_wrote(rdps_int, failAt) ==
    {i \in DOMAIN rdps_int : i > 1 /\ (failAt = 0 \/ i < failAt)}

\* self.shuffrdpfunc as set by shuff: ShuffGaussRDPtoDP.shuff binds
\* shuffle_gauss_rdp, SubGaussRDPtoDP.shuff overrides it by x/(2*sigma0**2)
shuffrdpfunc(s, shuffn, x) ==
    IF s.cls = "SubGaussRDPtoDP"
    THEN (x * s.sigma0[2]) \div (2 * s.sigma0[1])
    ELSE shuffle_gauss_rdp_values[x, s.sigma0, shuffn]

\* shuff(shuffn, rdps_int): the heap after the call and whether it raised;
\* rdps_int is an address, and the array it names is filled in place
shuff(s, h, shuffn, rdps_int, failAt) ==
    IF AllZero(h[rdps_int])
    THEN [heap |-> [h EXCEPT ![rdps_int] =
                      get_rdps(h[rdps_int],
                               [x \in 2..s.m |-> shuffrdpfunc(s, shuffn, x)], failAt)],
          wrote |-> get_rdps_wrote(h[rdps_int], failAt),
          raised |-> failAt # 0, result |-> rdps_int]
    ELSE [heap |-> h, wrote |-> {}, raised |-> FALSE, result |-> rdps_int]

\* self.subshufffunc as set by SubShuffGaussRDPtoDP.subshuff
subshufffunc(s, shuffn, x) ==
    get_subshuff_gauss_rdp(x, s.sigma0, s.gamma, shuffn)

\* subshuff without the memoization gate: it refills whatever the array holds
subshuff_nogate(s, h, shuffn, rdps_int, failAt) ==
    [heap |-> [h EXCEPT ![rdps_int] =
                 get_rdps(h[rdps_int],
                          [x \in 2..s.m |-> subshufffunc(s, shuffn, x)], failAt)],
     wrote |-> get_rdps_wrote(h[rdps_int], failAt),
     raised |-> failAt # 0, result |-> rdps_int]

\* SubShuffGaussRDPtoDP.subshuff(shuffn, rdps_int)
subshuff(s, h, shuffn, rdps_int, failAt) ==
    IF AllZero(h[rdps_int])
    THEN [heap |-> [h EXCEPT ![rdps_int] =
                      get_rdps(h[rdps_int],
                               [x \in 2..s.m |-> subshufffunc(s, shuffn, x)], failAt)],
          wrote |-> get_rdps_wrote(h[rdps_int], failAt),
          raised |-> failAt # 0, result |-> rdps_int]
    ELSE [heap |-> h, wrote |-> {}, raised |-> FALSE, result |-> rdps_int]

FillExc(raised) == IF raised THEN "raised in rdp_func" ELSE "none"

\* ShuffGaussRDPtoDP.get_shuff()
get_shuff ==
    /\ self.cls \in Public
    /\ \E failAt \in FailPoints :
        LET r == shuff(self, heap, self.shuffn, self.RDPs_int, failAt)
        IN  /\ heap' = r.heap
            /\ written' = [written EXCEPT ![self.RDPs_int] = @ \cup r.wrote]
            /\ self' = [self EXCEPT
                 !.shuffrdpfunc =
                    [func |-> IF self.cls = "SubGaussRDPtoDP" THEN "lambda"
                              ELSE "shuffle_gauss_rdp",
                     arg |-> self.shuffn],
                 !.RDPs_int = IF r.raised THEN @ ELSE r.result]
            /\ ret' = Outcome("get_shuff", NoArgs, FillExc(r.raised), 0, 0, {},
                              ret.op = "__init__")

\* SubShuffGaussRDPtoDP.get_subshuff()
get_subshuff ==
    /\ self.cls \in Subsampled
    /\ \E failAt \in FailPoints :
        LET r == subshuff(self, heap, self.shuffn, self.RDPs_int, failAt)
        IN  /\ heap' = r.heap
            /\ written' = [written EXCEPT ![self.RDPs_int] = @ \cup r.wrote]
            /\ self' = [self EXCEPT
                 !.subshufffunc = [func |-> "get_subshuff_gauss_rdp",
                                   arg |-> self.shuffn],
                 !.RDPs_int = IF r.raised THEN @ ELSE r.result]
            /\ ret' = Outcome("get_subshuff", NoArgs, FillExc(r.raised), 0, 0, {},
                              ret.op = "__init__")

\* the loop of ApproxSCIGaussRDPtoDP.get_subshuff over self.maxlmbdas: entry i
\* of rdps is overwritten from entry i of single and of subshuff.  Entry i
\* of subshuff is read before entry i of rdps is written, so when both
\* name one array the value read is the one the array held before the loop.
chernoff_combine(rdps, single, sub, chernoff_factor) ==
    [i \in DOMAIN rdps |->
        IF i > 1
        THEN LET factor1 == <<Plus(Times(i - 1, single[i]), chernoff_factor)>>
                 factor2 == <<Times(i - 1, sub[i])>>
             IN  stable_logsumexp(factor1 \o factor2) \div (i - 1)
        ELSE rdps[i]]

\* ApproxSCIGaussRDPtoDP.get_subshuff()
ApproxSCI_get_subshuff ==
    /\ self.cls = "ApproxSCIGaussRDPtoDP"
    /\ \E fail1 \in FailPoints, fail2 \in FailPoints :
        \* at most one of the two fills raises: the call ends at the first
        /\ fail1 # 0 => fail2 = 0
        /\ LET gate1 == AllZero(heap[self.subshuffRDPs_int])
               r1 == IF gate1
                     THEN subshuff(self, heap, self.displaced_n, self.RDPs_int, fail1)
                     ELSE [heap |-> heap, wrote |-> {}, raised |-> FALSE,
                           result |-> self.subshuffRDPs_int]
               func1 == IF gate1
                        THEN [func |-> "get_subshuff_gauss_rdp", arg |-> self.displaced_n]
                        ELSE self.subshufffunc
               gate2 == AllZero(r1.heap[self.single_subshuffRDPs_int])
               r2 == IF gate2
                     THEN subshuff(self, r1.heap, 1, self.single_subshuffRDPs_int, fail2)
                     ELSE [heap |-> r1.heap, wrote |-> {}, raised |-> FALSE,
                           result |-> self.single_subshuffRDPs_int]
               func2 == IF gate2
                        THEN [func |-> "get_subshuff_gauss_rdp", arg |-> 1]
                        ELSE func1
               gate3 == AllZero(r2.heap[self.RDPs_int])
               h3 == IF gate3
                     THEN [r2.heap EXCEPT ![self.RDPs_int] =
                             chernoff_combine(r2.heap[self.RDPs_int],
                                              r2.heap[r2.result],
                                              r2.heap[r1.result],
                                              self.chernoff_factor)]
                     ELSE r2.heap
               w1 == [written EXCEPT ![self.RDPs_int] = @ \cup r1.wrote]
               w2 == [w1 EXCEPT ![self.single_subshuffRDPs_int] = @ \cup r2.wrote]
               w3 == IF gate3
                     THEN [w2 EXCEPT ![self.RDPs_int] = @ \cup (2..self.m)]
                     ELSE w2
           IN  IF r1.raised
               THEN /\ heap' = r1.heap
                    /\ written' = w1
                    /\ self' = [self EXCEPT !.subshufffunc = func1]
                    /\ ret' = Outcome("get_subshuff", NoArgs, FillExc(TRUE), 0, 0, {},
                                      ret.op = "__init__")
               ELSE IF r2.raised
               THEN /\ heap' = r2.heap
                    /\ written' = w2
                    /\ self' = [self EXCEPT !.subshufffunc = func2,
                                            !.subshuffRDPs_int = r1.result]
                    /\ ret' = Outcome("get_subshuff", NoArgs, FillExc(TRUE), 0, 0, {},
                                      ret.op = "__init__")
               ELSE /\ heap' = h3
                    /\ written' = w3
                    /\ self' = [self EXCEPT !.subshufffunc = func2,
                                            !.subshuffRDPs_int = r1.result,
                                            !.single_subshuffRDPs_int = r2.result]
                    /\ ret' = Outcome("get_subshuff", NoArgs, "none", 0, 0, {},
                                      ret.op = "__init__")

\* an argmin that keeps the last index holding the minimum
argmin_last(s) ==
    CHOOSE k \in DOMAIN s :
        /\ \A j \in DOMAIN s : s[k] <= s[j]
        /\ \A j \in DOMAIN s : j > k => s[j] > s[k]

\* np.argmin(rdp2dp): the first index holding the minimum
argmin(s) ==
    CHOOSE k \in DOMAIN s :
        /\ \A j \in DOMAIN s : s[k] <= s[j]
        /\ \A j \in DOMAIN s : j < k => s[j] > s[k]

\* the warnings with the upper boundary tested as bestint == self.m
boundary_warnings_offbyone(bestint, m, verbose) ==
    (IF bestint = 0 /\ verbose
     THEN {"Warning: Smallest lambda = 1."} ELSE {})
    \cup
    (IF bestint = m /\ verbose
     THEN {"Warning: Reach quadratic upper bound: m_max."} ELSE {})

\* the two warnings of get_eps; bestint is the 0-based index of the code
boundary_warnings(bestint, m, verbose) ==
    (IF bestint = 0 /\ verbose
     THEN {"Warning: Smallest lambda = 1."} ELSE {})
    \cup
    (IF bestint = m - 1 /\ verbose
     THEN {"Warning: Reach quadratic upper bound: m_max."} ELSE {})

\* ShuffGaussRDPtoDP.get_eps(delta, coeff) after its two checks: the list
\* rdp2dp, bestint, the warnings and the returned pair
convert(rdps, m, verbose, delta, coeff) ==
    LET rdp2dp == [i \in 1..m |-> fun_int(i, delta.e, coeff, rdps)]
        bestint == argmin(rdp2dp) - 1
        bestlmbda == bestint + 1
    IN  [eps |-> rdp2dp[bestint + 1], order |-> bestlmbda,
         warnings |-> boundary_warnings(bestint, m, verbose)]

NotInitialized == "ValueError: The RDPs are not initialized! Run get_shuff first!"

\* a get_eps that composes in place (self.RDPs_int *= coeff) before it converts
get_eps_inplace ==
    /\ self.cls \in Public
    /\ \E delta \in Deltas, coeff \in Coeffs :
        LET args == [delta |-> delta, coeff |-> coeff]
            fresh == ret.op = "__init__"
            scaled == [i \in 1..self.m |-> coeff * heap[self.RDPs_int][i]]
        IN  /\ UNCHANGED <<self, written>>
            /\ IF check_delta(delta) # "none"
               THEN /\ heap' = heap
                    /\ ret' = Outcome("get_eps", args, check_delta(delta), 0, 0, {}, fresh)
               ELSE IF AllZero(heap[self.RDPs_int])
               THEN /\ heap' = heap
                    /\ ret' = Outcome("get_eps", args, NotInitialized, 0, 0, {}, fresh)
               ELSE LET c == convert(scaled, self.m, self.verbose, delta, 1)
                    IN  /\ heap' = [heap EXCEPT ![self.RDPs_int] = scaled]
                        /\ ret' = Outcome("get_eps", args, "none", c.eps, c.order,
                                          c.warnings, fresh)

\* ShuffGaussRDPtoDP.get_eps(delta, coeff), inherited by every public class
get_eps ==
    /\ self.cls \in Public
    /\ \E delta \in Deltas, coeff \in Coeffs :
        LET args == [delta |-> delta, coeff |-> coeff]
            fresh == ret.op = "__init__"
        IN  /\ UNCHANGED <<self, heap, written>>
            /\ IF check_delta(delta) # "none"
               THEN ret' = Outcome("get_eps", args, check_delta(delta), 0, 0, {}, fresh)
               ELSE IF AllZero(heap[self.RDPs_int])
               THEN ret' = Outcome("get_eps", args, NotInitialized, 0, 0, {}, fresh)
               ELSE LET c == convert(heap[self.RDPs_int], self.m, self.verbose,
                                     delta, coeff)
                    IN  ret' = Outcome("get_eps", args, "none", c.eps, c.order,
                                       c.warnings, fresh)

\* _SubShuffGaussRDPtoDP.get_shuffrdps(rdps_int, rdp_func)
get_shuffrdps(rdps_int, rdp_func) ==
    [i \in DOMAIN rdps_int |-> IF i > 1 THEN rdp_func[i] ELSE rdps_int[i]]

\* _SubShuffGaussRDPtoDP.subshuff(lmbda, gamma): the exception raised or
\* "none", the heap after the call, and the value returned
private_subshuff(s, h, lmbda, gamma) ==
    IF check_lmbda(lmbda) # "none"
    THEN [exc |-> check_lmbda(lmbda), heap |-> h, wrote |-> {}, value |-> 0]
    ELSE LET gate == AllZero(h[s.shuffRDPs_int])
             h1 == IF gate
                   THEN [h EXCEPT ![s.shuffRDPs_int] =
                           get_shuffrdps(h[s.shuffRDPs_int],
                               [x \in 2..s.m |->
                                   shuffle_gauss_rdp_values[x, s.sigma0, s.subno]])]
                   ELSE h
         IN  [exc |-> "none", heap |-> h1,
              wrote |-> IF gate THEN 2..s.m ELSE {},
              value |-> subshuff_gauss_rdp_helper(lmbda.val, gamma, h1[s.shuffRDPs_int])]

RECURSIVE private_fill(_, _, _, _)
\* the loop "for i in self.maxlmbdas: if i > 1:
\* self.subshuffRDPs_int[i - 1] = self.subshuff(i, self.gamma)" from order i on.
\* i is an element of a numpy integer array.
private_fill(s, h, w, i) ==
    IF i > s.m THEN [exc |-> "none", heap |-> h, written |-> w]
    ELSE IF i <= 1 THEN private_fill(s, h, w, i + 1)
    ELSE LET r == private_subshuff(s, h, [type |-> "numpy.int64", val |-> i], s.gamma)
             w1 == [w EXCEPT ![s.shuffRDPs_int] = @ \cup r.wrote]
         IN  IF r.exc # "none" THEN [exc |-> r.exc, heap |-> r.heap, written |-> w1]
             ELSE private_fill(s,
                    [r.heap EXCEPT ![s.subshuffRDPs_int][i] = r.value],
                    [w1 EXCEPT ![s.subshuffRDPs_int] = @ \cup {i}], i + 1)

\* the conversion of _SubShuffGaussRDPtoDP.get_eps: fun_int is applied to
\* i - 1 for each i of self.maxlmbdas
private_convert(rdps, m, verbose, delta, coeff) ==
    LET rdp2dp == [i \in 1..m |-> fun_int(i - 1, delta.e, coeff, rdps)]
        bestint == argmin(rdp2dp) - 1
        bestlmbda == bestint + 1
    IN  [eps |-> rdp2dp[bestint + 1], order |-> bestlmbda,
         warnings |-> boundary_warnings(bestint, m, verbose)]

\* _SubShuffGaussRDPtoDP.get_eps(delta, coeff)
private_get_eps ==
    /\ self.cls = "_SubShuffGaussRDPtoDP"
    /\ \E delta \in Deltas, coeff \in Coeffs :
        LET args == [delta |-> delta, coeff |-> coeff]
            fresh == ret.op = "__init__"
            f == IF AllZero(heap[self.subshuffRDPs_int])
                 THEN private_fill(self, heap, written, 1)
                 ELSE [exc |-> "none", heap |-> heap, written |-> written]
        IN  /\ UNCHANGED self
            /\ IF check_delta(delta) # "none"
               THEN /\ UNCHANGED <<heap, written>>
                    /\ ret' = Outcome("get_eps", args, check_delta(delta), 0, 0, {}, fresh)
               ELSE IF f.exc # "none"
               THEN /\ heap' = f.heap
                    /\ written' = f.written
                    /\ ret' = Outcome("get_eps", args, f.exc, 0, 0, {}, fresh)
               ELSE LET c == private_convert(f.heap[self.subshuffRDPs_int], self.m,
                                             self.verbose, delta, coeff)
                    IN  /\ heap' = f.heap
                        /\ written' = f.written
                        /\ ret' = Outcome("get_eps", args, "none", c.eps, c.order,
                                          c.warnings, fresh)

Next ==
    \/ get_shuff
    \/ get_subshuff
    \/ ApproxSCI_get_subshuff
    \/ get_eps
    \/ private_get_eps

Spec == Init /\ [][Next]_vars

\* =============================================================== claims
\* The properties below read the state through their own helpers, so that
\* they say the same thing whatever the methods above compute.

Curve == heap[self.RDPs_int]
IsZeroCurve(arr) == arr = [i \in DOMAIN arr |-> 0]
Orders == 2..self.m
ValidDelta(delta) == delta.type = "float" /\ ~delta.neg /\ delta.e >= 0
Returned(op) == ret.op = op /\ ret.exc = "none"
Fresh == ret.fresh

\* the curve the Amplifier gives for subsample size subno, order by order
AmplifiedCurve(subno) ==
    [i \in 1..self.m |->
        IF i > 1 THEN get_subshuff_gauss_rdp(i, self.sigma0, self.gamma, subno)
        ELSE 0]

\* the single-order conversion of the current curve for the last call's arguments
Conv(i) == fun_int(i, ret.args.delta.e, ret.args.coeff, Curve)

\* ---- C1
\* C1: on every public accountant, get_eps with a valid delta on a curve
\* whose entries are all zero ends with the "not initialized" error, returns
\* no pair, and leaves the accountant and its arrays as they were.
C1_NotInitialized ==
    [][(/\ self.cls \in Public
        /\ ret'.op = "get_eps"
        /\ ValidDelta(ret'.args.delta)
        /\ IsZeroCurve(Curve))
       => (/\ ret'.exc = NotInitialized
           /\ heap' = heap /\ self' = self /\ written' = written)]_vars

C1_Witness ==
    /\ self.cls \in Public
    /\ ret.op = "get_eps" /\ ValidDelta(ret.args.delta)
    /\ IsZeroCurve(Curve)
    /\ ret.exc = NotInitialized

\* ---- C2
\* C2: when get_eps returns on a public accountant, epsilon is the minimum
\* of the single-order conversion over the orders 1..m and best_order is the
\* lowest order attaining it.
C2_MinFirst ==
    (self.cls \in Public /\ Returned("get_eps"))
    => /\ ret.order \in 1..self.m
       /\ Conv(ret.order) = ret.eps
       /\ \A i \in 1..self.m : ret.eps <= Conv(i)
       /\ \A i \in 1..self.m : i < ret.order => Conv(i) > ret.eps

\* a returned minimum that a higher order attains as well
C2_Witness ==
    /\ self.cls \in Public /\ Returned("get_eps")
    /\ \E j \in 1..self.m : j > ret.order /\ Conv(j) = ret.eps

\* ---- C3
\* C3: after get_subshuff() returns on a freshly constructed
\* ApproxSCIGaussRDPtoDP, every order i in 2..m of RDPs_int is the Chernoff
\* combination of the subno=1 curve and the subno=displaced_n curve.
C3_ChernoffApplied ==
    (self.cls = "ApproxSCIGaussRDPtoDP" /\ Returned("get_subshuff") /\ Fresh)
    => LET single == AmplifiedCurve(1)
           sub == AmplifiedCurve(self.displaced_n)
       IN  \A i \in Orders :
             Curve[i] = stable_logsumexp(
                            <<(i - 1) * single[i] + self.chernoff_factor,
                              (i - 1) * sub[i]>>) \div (i - 1)

\* ---- C4
\* C4: after get_subshuff() returns on a fresh SubGaussRDPtoDP, the curve at
\* every order lambda in 2..m is the closed form lambda / (2*sigma0^2).
C4_ClosedForm ==
    (self.cls = "SubGaussRDPtoDP" /\ Returned("get_subshuff") /\ Fresh)
    => \A lmbda \in Orders :
         Curve[lmbda] = (lmbda * self.sigma0[2]) \div (2 * self.sigma0[1])

\* ---- C5
\* C5: when a completed get_subshuff() has left an all-zero curve, the
\* get_eps that follows with a valid delta returns a pair, whose epsilon is
\* the conversion of the zero curve (no RDP contribution), and does not fail.
C5_ZeroCurveReturns ==
    [][(/\ self.cls \in Subsampled
        /\ Returned("get_subshuff")
        /\ self.m > 1
        /\ written[self.RDPs_int] = Orders
        /\ IsZeroCurve(Curve)
        /\ ret'.op = "get_eps"
        /\ ValidDelta(ret'.args.delta))
       => (/\ ret'.exc = "none"
           /\ \A i \in Orders : ret'.eps <= ret'.args.delta.e \div (i - 1))]_vars

\* ---- C6
\* C6 as stated: for any value of verbose, a get_eps that returns best order
\* 1 or m has emitted a warning.
C6_WarnsAtBoundary ==
    (self.cls \in Public /\ Returned("get_eps") /\ ret.order \in {1, self.m})
    => ret.warnings # {}

\* C6 amended: a get_eps that returns has emitted the order-1 warning exactly
\* when verbose is set and the best order is 1, and the m_max warning exactly
\* when verbose is set and the best order is m; with verbose unset it emits
\* none.  The pair is returned in every case.
C6_WarnsIffVerbose ==
    (self.cls \in Public /\ Returned("get_eps"))
    => /\ ("Warning: Smallest lambda = 1." \in ret.warnings)
            <=> (self.verbose /\ ret.order = 1)
       /\ ("Warning: Reach quadratic upper bound: m_max." \in ret.warnings)
            <=> (self.verbose /\ ret.order = self.m)
       /\ ret.warnings \subseteq {"Warning: Smallest lambda = 1.",
                                  "Warning: Reach quadratic upper bound: m_max."}
       /\ ret.order \in 1..self.m

C6_Witness ==
    /\ self.cls \in Public /\ Returned("get_eps")
    /\ self.verbose /\ self.m > 2 /\ ret.order = self.m
    /\ ret.warnings = {"Warning: Reach quadratic upper bound: m_max."}

\* ---- C7
\* what SubShuffGaussRDPtoDP(sigma0, n, subno, m).get_subshuff() followed by
\* get_eps(delta, coeff) gives for the parameters of the current accountant
PublicOutcome(delta, coeff) ==
    LET curve == AmplifiedCurve(self.subno)
    IN  IF IsZeroCurve(curve)
        THEN [exc |-> NotInitialized, eps |-> 0, order |-> 0]
        ELSE LET c == convert(curve, self.m, self.verbose, delta, coeff)
             IN  [exc |-> "none", eps |-> c.eps, order |-> c.order]

\* C7: for a valid delta, _SubShuffGaussRDPtoDP.get_eps ends as the public
\* get_subshuff() followed by get_eps ends for the same parameters: the same
\* (epsilon, best_order).
C7_ParallelSameResult ==
    (/\ self.cls = "_SubShuffGaussRDPtoDP"
     /\ ret.op = "get_eps" /\ ValidDelta(ret.args.delta))
    => [exc |-> ret.exc, eps |-> ret.eps, order |-> ret.order]
         = PublicOutcome(ret.args.delta, ret.args.coeff)

\* ---- C8
\* C8: after any fill call on a public accountant has ended, by returning or
\* by raising, the curve is still entirely zero or every order 2..m of it
\* has been assigned.
C8_AllOrNothing ==
    (self.cls \in Public /\ ret.op \in {"get_shuff", "get_subshuff"})
    => (IsZeroCurve(Curve) \/ written[self.RDPs_int] = Orders)

\* ---- C9
\* C9: a get_eps on a public accountant whose curve is filled changes no
\* array and no parameter, and when it repeats the arguments of the get_eps
\* just before it, it ends the same way with the same (epsilon, best_order).
C9_ReadOnlyIdempotent ==
    [][(/\ self.cls \in Public
        /\ ~IsZeroCurve(Curve)
        /\ ret'.op = "get_eps")
       => (/\ heap' = heap /\ self' = self /\ written' = written
           /\ (ret.op = "get_eps" /\ ret.args = ret'.args)
                => (/\ ret'.exc = ret.exc
                    /\ ret'.eps = ret.eps
                    /\ ret'.order = ret.order
                    /\ ret'.warnings = ret.warnings))]_vars

C9_Witness ==
    /\ self.cls \in Public /\ Returned("get_eps")
    /\ ~ret.fresh
    /\ ~IsZeroCurve(Curve)
    /\ ret.args.coeff > 1

\* ---- C10
\* C10 as stated: whenever get_subshuff() has returned on a
\* SubShuffGaussRDPtoDP whose curve has every order assigned, the curve holds
\* the Amplifier value at every order 2..m.
C10_AlwaysAmplified ==
    (/\ self.cls \in Subsampled
     /\ Returned("get_subshuff")
     /\ written[self.RDPs_int] = Orders)
    => \A i \in Orders : Curve[i] = AmplifiedCurve(self.shuffn)[i]

\* C10 amended: a get_subshuff() that returns has put the Amplifier value at
\* every order 2..m when the curve was entirely zero at the call, and has
\* left the curve as it was when it had a non-zero entry (for instance
\* after get_shuff()).
C10_AmplifiedOrKept ==
    [][(/\ self.cls \in Subsampled
        /\ ret'.op = "get_subshuff" /\ ret'.exc = "none")
       => IF IsZeroCurve(Curve)
          THEN \A i \in Orders : heap'[self'.RDPs_int][i] = AmplifiedCurve(self.shuffn)[i]
          ELSE heap'[self'.RDPs_int] = Curve]_vars

\* get_shuff() first, get_subshuff() afterwards: the curve kept is the
\* Evaluator's, and it is not the Amplifier's
C10_Witness ==
    /\ self.cls = "SubShuffGaussRDPtoDP"
    /\ Returned("get_subshuff")
    /\ self.shuffrdpfunc.func = "shuffle_gauss_rdp"
    /\ written[self.RDPs_int] = Orders
    /\ \A i \in Orders : Curve[i] = shuffle_gauss_rdp(i, self.sigma0, self.shuffn)
    /\ \E i \in Orders : Curve[i] # AmplifiedCurve(self.shuffn)[i]

====
